---- MODULE Spec2Model ----
(***************************************************************************)
(* zellij-picker (src/src/main.rs): the picker's state (App), the event    *)
(* loop of run_tui with its terminal set-up and clean-up, and main's       *)
(* dispatch of the resulting ExitAction to the zellij binary.              *)
(*                                                                         *)
(* Strings are sequences of one-character strings.  An Option<T> is a      *)
(* sequence of length at most one: None is << >>, Some(x) is <<x>>.        *)
(***************************************************************************)
EXTENDS Integers, Sequences, FiniteSets, TLC

\* ------------------------------------------------------------------ bounds
\* Number of lines zellij list-sessions may print.
MaxLines == 4
\* Number of key events recorded (and accepted) during one text entry.
MaxTyped == 3
\* Longest session list an App is built from when it is exercised on its own.
MaxSessions == 3

\* ------------------------------------------------------------ Option<T>
None == << >>
Some(x) == <<x>>
IsSome(o) == Len(o) = 1
Unwrap(o) == o[1]

\* ---------------------------------------------------------- characters
ESC == "ESC"
\* Characters a KeyCode::Char event carries in this model.
KeyChars == {"q", "j", "k", "d", "n", "x", "y", "-", "!"}
Letters == {"a", "b", "d", "e", "h", "j", "k", "l", "n", "o", "p", "q", "r",
            "t", "w", "x", "y", "C"}
Digits == {"0", "1", "2", "9"}
\* char::is_alphanumeric on the characters of the model.
is_alphanumeric(c) == c \in Letters \cup Digits
\* char::is_whitespace on the characters of the model.
is_whitespace(c) == c \in {" ", "\t"}

\* str::trim: drops leading and trailing whitespace.
RECURSIVE trim_start(_)
trim_start(s) ==
    IF s # << >> /\ is_whitespace(Head(s)) THEN trim_start(Tail(s)) ELSE s
RECURSIVE trim_end(_)
trim_end(s) ==
    IF s # << >> /\ is_whitespace(s[Len(s)])
    THEN trim_end(SubSeq(s, 1, Len(s) - 1))
    ELSE s
trim(s) == trim_end(trim_start(s))

\* ------------------------------------------------------------ key events
Key(code, ch) == [code |-> code, ch |-> ch]
CharKey(c) == Key("Char", c)
EnterKey == Key("Enter", "")
EscKey == Key("Esc", "")
BackspaceKey == Key("Backspace", "")
UpKey == Key("Up", "")
DownKey == Key("Down", "")
Keys == {CharKey(c) : c \in KeyChars}
            \cup {EnterKey, EscKey, BackspaceKey, UpKey, DownKey}

\* ------------------------------------------------------------ ExitAction
AttachSession(name) == [kind |-> "AttachSession", name |-> Some(name)]
NewSession(option) == [kind |-> "NewSession", name |-> option]
DeleteSession(name) == [kind |-> "DeleteSession", name |-> Some(name)]
Quit == [kind |-> "Quit", name |-> None]

\* ------------------------------------------------- zellij list-sessions
alpha == <<"a", "l", "p", "h", "a">>
beta == <<"b", "e", "t", "a">>
work == <<"w", "o", "r", "k">>
\* A padded line, a blank line and a decorated line, as list-sessions prints
\* them: "  beta ", "  " and ESC[1mwork ESC[0m [Created 2 mins ago].
beta_line == <<" ", " ">> \o beta \o <<" ">>
blank_line == <<" ", " ">>
work_line == <<ESC, "[", "1", "m">> \o work \o <<ESC, "[", "0", "m", " ", "[",
               "C", "r", "e", "a", "t", "e", "d", " ", "2", " ", "m", "i",
               "n", "s", " ", "a", "g", "o", "]">>
SessionLines == <<alpha, beta_line, work_line>>
\* A listing of n lines: a blank line, then one line per session (the
\* session lines repeat after the third).
StdoutLines(n) ==
    [i \in 1..n |-> IF i = 1 THEN blank_line
                    ELSE SessionLines[((i - 2) % Len(SessionLines)) + 1]]
\* io::Result<Output> of Command::output(): Err, or Ok with the exit status
\* of the command and the lines of its stdout.
CommandOutputs ==
    {[ok |-> FALSE, success |-> FALSE, stdout |-> << >>]}
        \cup {[ok |-> TRUE, success |-> b, stdout |-> StdoutLines(n)] :
                    b \in BOOLEAN, n \in 0..MaxLines}

RECURSIVE trimmed_nonempty_lines(_)
trimmed_nonempty_lines(lines) ==
    IF lines = << >> THEN << >>
    ELSE LET l == trim(Head(lines))
         IN  IF l # << >>
             THEN <<l>> \o trimmed_nonempty_lines(Tail(lines))
             ELSE trimmed_nonempty_lines(Tail(lines))

\* Mutant of get_sessions: num counts the lines printed, blank ones included.
get_sessions_counting_lines(output) ==
    LET sessions == IF output.ok
                    THEN trimmed_nonempty_lines(output.stdout)
                    ELSE << >>
    IN  [sessions |-> sessions, num |-> Len(output.stdout)]

\* get_sessions: (sessions, num) from the outcome of zellij list-sessions.
get_sessions(output) ==
    LET sessions == IF output.ok
                    THEN trimmed_nonempty_lines(output.stdout)
                    ELSE << >>
    IN  [sessions |-> sessions, num |-> Len(sessions)]

\* ------------------------------------------------------------------- App
\* App::new
App_new(sessions) ==
    [sessions |-> sessions,
     list_state |-> IF sessions # << >> THEN Some(0) ELSE None,
     new_session_input |-> None]

\* ListState::selected().unwrap_or(0)
selected_or_0(a) == IF IsSome(a.list_state) THEN Unwrap(a.list_state) ELSE 0

\* Mutant of selected_session: the first session, whatever is selected.
selected_session_first(a) ==
    IF a.sessions # << >> THEN Some(a.sessions[1]) ELSE None

\* App::selected_session
selected_session(a) ==
    IF IsSome(a.list_state) /\ Unwrap(a.list_state) < Len(a.sessions)
    THEN Some(a.sessions[Unwrap(a.list_state) + 1])
    ELSE None

\* Mutant of move_up: the index stops at the first entry instead of wrapping.
move_up_clamped(a) ==
    IF a.sessions = << >> THEN a
    ELSE LET i == selected_or_0(a)
         IN  [a EXCEPT !.list_state = Some(IF i = 0 THEN 0 ELSE i - 1)]

\* Variant of move_up without the is_empty guard; the subtraction is left
\* unchecked.
move_up_unguarded(a) ==
    LET i == selected_or_0(a)
        next == IF i = 0 THEN Len(a.sessions) - 1 ELSE i - 1
    IN  [a EXCEPT !.list_state = Some(next)]

\* App::move_up
move_up(a) ==
    IF a.sessions = << >> THEN a
    ELSE LET i == selected_or_0(a)
             next == IF i = 0 THEN Len(a.sessions) - 1 ELSE i - 1
         IN  [a EXCEPT !.list_state = Some(next)]

\* Mutant of move_down: the index is advanced without wrapping.
move_down_no_wrap(a) ==
    IF a.sessions = << >> THEN a
    ELSE [a EXCEPT !.list_state = Some(selected_or_0(a) + 1)]

\* App::move_down
move_down(a) ==
    IF a.sessions = << >> THEN a
    ELSE LET i == selected_or_0(a)
             next == (i + 1) % Len(a.sessions)
         IN  [a EXCEPT !.list_state = Some(next)]

\* --------------------------------------------------- key handling (run_tui)
\* The outcome of one key event: the new App and, when the loop breaks, the
\* ExitAction it breaks with.
Continue(a) == [app |-> a, brk |-> None]
Break(a, action) == [app |-> a, brk |-> Some(action)]

\* Mutant of valid_name_char: everything but whitespace is accepted.
valid_name_char_not_space(c) == ~is_whitespace(c)

\* The character test of the new-session input.
valid_name_char(c) == is_alphanumeric(c) \/ c = "-" \/ c = "_"

\* Mutant of input_enter: an empty name creates an unnamed session.
input_enter_unnamed(a, input) ==
    LET name == trim(input)
    IN  Break(a, NewSession(IF name = << >> THEN None ELSE Some(name)))

\* Mutant of input_enter: an empty name is ignored and the entry goes on.
input_enter_stays(a, input) ==
    LET name == trim(input)
    IN  IF name = << >>
        THEN Continue(a)
        ELSE Break(a, NewSession(Some(name)))

\* KeyCode::Enter in input mode.
input_enter(a, input) ==
    LET name == trim(input)
    IN  IF name = << >>
        THEN Continue([a EXCEPT !.new_session_input = None])
        ELSE Break(a, NewSession(Some(name)))

\* Variant of input_esc: Escape quits from the text entry too.
input_esc_quits(a) == Break(a, Quit)

\* Variant of input_esc: leaving the text entry rebuilds the list state.
input_esc_resets_selection(a) ==
    Continue([a EXCEPT !.new_session_input = None, !.list_state = Some(0)])

\* Variant of input_esc: Escape is ignored in the text entry.
input_esc_ignored(a) == Continue(a)

\* KeyCode::Esc in input mode.
input_esc(a) == Continue([a EXCEPT !.new_session_input = None])

\* Mutant of input_backspace: the whole input is cleared.
input_backspace_clears(a, input) ==
    Continue([a EXCEPT !.new_session_input = Some(<< >>)])

\* KeyCode::Backspace in input mode: String::pop.
input_backspace(a, input) ==
    Continue([a EXCEPT !.new_session_input =
                Some(IF input = << >> THEN input
                     ELSE SubSeq(input, 1, Len(input) - 1))])

\* KeyCode::Char(c) in input mode.
input_char(a, input, c) ==
    IF valid_name_char(c)
    THEN Continue([a EXCEPT !.new_session_input = Some(Append(input, c))])
    ELSE Continue(a)

\* Key event while app.new_session_input is Some(input).
input_mode_key(a, key) ==
    LET input == Unwrap(a.new_session_input)
    IN  CASE key.code = "Enter" -> input_enter(a, input)
          [] key.code = "Esc" -> input_esc(a)
          [] key.code = "Backspace" -> input_backspace(a, input)
          [] key.code = "Char" -> input_char(a, input, key.ch)
          [] OTHER -> Continue(a)

\* Variant of navigation_mode_key with the vim keys mixed up: k is handled
\* on the Down arm.
navigation_mode_key_k_down(a, key) ==
    CASE key = CharKey("q") \/ key.code = "Esc" -> Break(a, Quit)
      [] key.code = "Up" -> Continue(move_up(a))
      [] key.code = "Down" \/ key \in {CharKey("j"), CharKey("k")} ->
            Continue(move_down(a))
      [] key = CharKey("d") ->
            IF IsSome(selected_session(a))
            THEN Break(a, DeleteSession(Unwrap(selected_session(a))))
            ELSE Continue(a)
      [] key.code = "Enter" ->
            IF IsSome(selected_session(a))
            THEN Break(a, AttachSession(Unwrap(selected_session(a))))
            ELSE Continue(a)
      [] key = CharKey("n") ->
            Continue([a EXCEPT !.new_session_input = Some(<< >>)])
      [] OTHER -> Continue(a)

\* Key event while app.new_session_input is None.
navigation_mode_key(a, key) ==
    CASE key = CharKey("q") \/ key.code = "Esc" -> Break(a, Quit)
      [] key.code = "Up" \/ key = CharKey("k") -> Continue(move_up(a))
      [] key.code = "Down" \/ key = CharKey("j") -> Continue(move_down(a))
      [] key = CharKey("d") ->
            IF IsSome(selected_session(a))
            THEN Break(a, DeleteSession(Unwrap(selected_session(a))))
            ELSE Continue(a)
      [] key.code = "Enter" ->
            IF IsSome(selected_session(a))
            THEN Break(a, AttachSession(Unwrap(selected_session(a))))
            ELSE Continue(a)
      [] key = CharKey("n") ->
            Continue([a EXCEPT !.new_session_input = Some(<< >>)])
      [] OTHER -> Continue(a)

\* Mutant of on_key: without the `continue` that ends the input-mode branch,
\* a key handled there falls through to the navigation match.
on_key_fallthrough(a, key) ==
    IF IsSome(a.new_session_input)
    THEN LET r == input_mode_key(a, key)
         IN  IF IsSome(r.brk) THEN r ELSE navigation_mode_key(r.app, key)
    ELSE navigation_mode_key(a, key)

\* Event::Key(key) in the loop of run_tui.
on_key(a, key) ==
    IF IsSome(a.new_session_input)
    THEN input_mode_key(a, key)
    ELSE navigation_mode_key(a, key)

\* ---------------------------------------------------------- parse_name
\* The parameter bytes of the regex class [0-?9;]: '0' up to '?'.
ParamChars == {"0", "1", "2", "3", "4", "5", "6", "7", "8", "9",
               ":", ";", "<", "=", ">", "?"}
\* End of the longest run of parameter characters starting at position i.
RECURSIVE skip_params(_, _)
skip_params(s, i) ==
    IF i <= Len(s) /\ s[i] \in ParamChars THEN skip_params(s, i + 1) ELSE i
\* Length of the match of \x1B\[[0-?9;]*[mK] at position i, or 0.
ansi_match(s, i) ==
    IF i + 1 <= Len(s) /\ s[i] = ESC /\ s[i + 1] = "["
    THEN LET j == skip_params(s, i + 2)
         IN  IF j <= Len(s) /\ s[j] \in {"m", "K"} THEN j - i + 1 ELSE 0
    ELSE 0
\* Regex::replace_all(input, ""): leftmost, non-overlapping matches removed.
RECURSIVE strip_from(_, _)
strip_from(s, i) ==
    IF i > Len(s) THEN << >>
    ELSE LET n == ansi_match(s, i)
         IN  IF n > 0 THEN strip_from(s, i + n)
             ELSE <<s[i]>> \o strip_from(s, i + 1)
strip_ansi_codes(input) == strip_from(input, 1)

\* input.split(" [").next().unwrap(): the text before the first " [".
RECURSIVE before_bracket(_, _)
before_bracket(s, i) ==
    IF i > Len(s) THEN s
    ELSE IF i + 1 <= Len(s) /\ s[i] = " " /\ s[i + 1] = "["
         THEN SubSeq(s, 1, i - 1)
         ELSE before_bracket(s, i + 1)
\* Variant of parse_name without the split at " [".
parse_name_unsplit(input) == strip_ansi_codes(trim(input))

parse_name(input) == strip_ansi_codes(trim(before_bracket(input, 1)))

\* ----------------------------------------------------------------- state
VARIABLES
    pc,                 \* the next step of main / run_tui
    raw_mode,           \* terminal::enable_raw_mode is in effect
    alternate_screen,   \* EnterAlternateScreen / EnableMouseCapture in effect
    app,                \* Option<App>: None until App::new has run
    action,             \* Option<ExitAction>: `let action;` of run_tui
    result,             \* what run_tui returned: "none", "Ok" or "Err"
    out,                \* Option: the outcome of list-sessions in get_sessions
    rendered,           \* Option<App>: the state shown by the last frame
    polled,             \* event::poll has been called
    cmds,               \* the zellij invocations started, in order
    stderr,             \* the failures reported with eprintln!
    exit_code,          \* Option<i32>: the status the process exited with
    last_key,           \* Option<Key>: the most recent key event
    prev_key,           \* Option<Key>: the key event before last_key
    typed,              \* the key events of the text entry since its n press
    run                 \* the current run of same-direction selection moves

vars == <<pc, raw_mode, alternate_screen, app, action, result, out, rendered,
          polled, cmds, stderr, exit_code, last_key, prev_key, typed, run>>

tui_vars ==
    <<app, action, out, rendered, polled, last_key, prev_key, typed, run>>
main_vars == <<cmds, stderr, exit_code>>
tty_vars == <<raw_mode, alternate_screen>>

NoRun == [dir |-> "none", n |-> 0, start |-> 0]

Init ==
    /\ pc = "enable_raw_mode"
    /\ raw_mode = FALSE
    /\ alternate_screen = FALSE
    /\ app = None
    /\ action = None
    /\ result = "none"
    /\ out = None
    /\ rendered = None
    /\ polled = FALSE
    /\ cmds = << >>
    /\ stderr = << >>
    /\ exit_code = None
    /\ last_key = None
    /\ prev_key = None
    /\ typed = << >>
    /\ run = NoRun

\* A zellij invocation, with the terminal modes it starts under.
Invocation(args) ==
    [args |-> args, raw_mode |-> raw_mode, alternate_screen |-> alternate_screen]

\* run_tui returns: its locals (the App, the Terminal and its last frame) are
\* dropped, and with them the record of the loop's key events.
Return(r) ==
    /\ pc' = "main"
    /\ result' = r
    /\ out' = out
    /\ app' = None
    /\ rendered' = None
    /\ last_key' = None
    /\ prev_key' = None
    /\ typed' = << >>
    /\ run' = NoRun

\* The `?` operator on an Err: run_tui returns to main at once, without the
\* action it may have chosen.
ReturnErr ==
    /\ Return("Err")
    /\ action' = None

\* Ok(action)
ReturnOk ==
    /\ Return("Ok")
    /\ action' = action

\* A step inside run_tui that does not return and leaves the loop's state.
Stay ==
    UNCHANGED <<result, app, action, out, rendered, last_key, prev_key, typed,
                run>>

\* The first step after the loop: the record of the loop's key events ends.
AfterLoop ==
    /\ UNCHANGED <<result, app, action, out, rendered>>
    /\ last_key' = None
    /\ prev_key' = None
    /\ typed' = << >>
    /\ run' = NoRun

\* ------------------------------------------------------ run_tui: set-up
\* terminal::enable_raw_mode()?
EnableRawMode ==
    /\ pc = "enable_raw_mode"
    /\ \E ok \in BOOLEAN :
          IF ok
          THEN raw_mode' = TRUE /\ pc' = "enter_alternate_screen" /\ Stay
          ELSE raw_mode' = raw_mode /\ ReturnErr
    /\ UNCHANGED <<alternate_screen, polled, main_vars>>

\* execute!(stdout, EnterAlternateScreen, EnableMouseCapture)?  A failed
\* write may or may not have switched the screen.
EnterAlternateScreen ==
    /\ pc = "enter_alternate_screen"
    /\ \E ok \in BOOLEAN :
          IF ok
          THEN alternate_screen' = TRUE /\ pc' = "terminal_new" /\ Stay
          ELSE alternate_screen' \in BOOLEAN /\ ReturnErr
    /\ UNCHANGED <<raw_mode, polled, main_vars>>

\* Terminal::new(backend)?
TerminalNew ==
    /\ pc = "terminal_new"
    /\ \E ok \in BOOLEAN :
          IF ok
          THEN pc' = "list_sessions" /\ Stay
          ELSE ReturnErr
    /\ UNCHANGED <<tty_vars, polled, main_vars>>

\* get_sessions, first statement:
\* let output = Command::new("zellij").args(["list-sessions"]).output();
ListSessions ==
    /\ pc = "list_sessions"
    /\ \E output \in CommandOutputs : out' = Some(output)
    /\ cmds' = Append(cmds, Invocation(<<"list-sessions">>))
    /\ pc' = "get_sessions"
    /\ UNCHANGED <<tty_vars, app, action, result, rendered, polled, stderr,
                   exit_code, last_key, prev_key, typed, run>>

\* The rest of get_sessions, which consumes the outcome;
\* let mut app = App::new(sessions); and the test `if num != 0` that enters
\* or skips the loop.
GetSessions ==
    /\ pc = "get_sessions"
    /\ LET got == get_sessions(Unwrap(out))
       IN  /\ app' = Some(App_new(got.sessions))
           /\ IF got.num # 0
              THEN pc' = "draw" /\ action' = action
              ELSE pc' = "disable_raw_mode"
                       /\ action' = Some(NewSession(None))
    /\ out' = None
    /\ UNCHANGED <<tty_vars, result, rendered, polled, main_vars,
                   last_key, prev_key, typed, run>>

\* -------------------------------------------------------- run_tui: loop
\* Variant of Draw: the iteration goes on to the poll without drawing.
Draw_skipped ==
    /\ pc = "draw"
    /\ pc' = "poll"
    /\ UNCHANGED <<tty_vars, tui_vars, result, main_vars>>

\* terminal.draw(|f| ui(f, &app))?  The frame shows the current App.
Draw ==
    /\ pc = "draw"
    /\ \E ok \in BOOLEAN :
          IF ok
          THEN /\ rendered' = app
               /\ pc' = "poll"
               /\ UNCHANGED <<result, app, action, out, last_key, prev_key,
                              typed, run>>
          ELSE ReturnErr
    /\ UNCHANGED <<tty_vars, polled, main_vars>>

\* event::poll(Duration::from_millis(100))?: an event is ready, the wait
\* timed out, or the poll failed.
Poll ==
    /\ pc = "poll"
    /\ polled' = TRUE
    /\ \E r \in {"true", "false", "err"} :
          CASE r = "true" -> pc' = "read" /\ Stay
            [] r = "false" -> pc' = "draw" /\ Stay
            [] OTHER -> ReturnErr
    /\ UNCHANGED <<tty_vars, main_vars>>

\* The direction a key moves the selection in while navigating.
MoveDir(key) ==
    CASE key \in {UpKey, CharKey("k")} -> "up"
      [] key \in {DownKey, CharKey("j")} -> "down"
      [] OTHER -> "none"

\* The run of same-direction moves after `key` is handled while navigating:
\* a move in the run's direction extends it until it has len(sessions)
\* moves, any other move starts a new run, n ends it.
NextRun(a, key) ==
    LET d == MoveDir(key)
    IN  IF d # "none"
        THEN IF run.dir = d /\ run.n < Len(a.sessions)
             THEN [run EXCEPT !.n = @ + 1]
             ELSE [dir |-> d, n |-> 1, start |-> selected_or_0(a)]
        ELSE IF key = CharKey("n") THEN NoRun ELSE run

\* event::read()? yields Event::Key(key): the key is handled in the mode the
\* App is in, and the loop breaks or continues with the next frame.
ReadKey ==
    /\ pc = "read"
    /\ \E key \in Keys :
          LET a == Unwrap(app)
              editing == IsSome(a.new_session_input)
              r == on_key(a, key)
          IN  /\ (editing /\ key.code \notin {"Enter", "Esc"})
                    => Len(typed) < MaxTyped
              /\ app' = Some(r.app)
              /\ last_key' = Some(key)
              /\ prev_key' = last_key
              /\ IF IsSome(r.brk)
                 THEN action' = r.brk /\ pc' = "disable_raw_mode"
                 ELSE action' = action /\ pc' = "draw"
              /\ typed' = IF ~IsSome(r.app.new_session_input) THEN << >>
                          ELSE IF editing /\ ~IsSome(r.brk)
                               THEN Append(typed, key)
                               ELSE typed
              /\ run' = IF editing THEN run ELSE NextRun(a, key)
    /\ UNCHANGED <<tty_vars, result, out, rendered, polled, main_vars>>

\* event::read()? yields Event::Resize or any other non-key event: nothing
\* is done and the next iteration redraws.
ReadOtherEvent ==
    /\ pc = "read"
    /\ pc' = "draw"
    /\ Stay
    /\ UNCHANGED <<tty_vars, polled, main_vars>>

\* event::read()? fails.
ReadErr ==
    /\ pc = "read"
    /\ ReturnErr
    /\ UNCHANGED <<tty_vars, polled, main_vars>>

\* ---------------------------------------------------- run_tui: clean-up
\* terminal::disable_raw_mode()?
DisableRawMode ==
    /\ pc = "disable_raw_mode"
    /\ \E ok \in BOOLEAN :
          IF ok
          THEN raw_mode' = FALSE /\ pc' = "leave_alternate_screen"
                    /\ AfterLoop
          ELSE raw_mode' = raw_mode /\ ReturnErr
    /\ UNCHANGED <<alternate_screen, polled, main_vars>>

\* execute!(terminal.backend_mut(), LeaveAlternateScreen, DisableMouseCapture)?
\* A failed write may or may not have left the screen.
LeaveAlternateScreen ==
    /\ pc = "leave_alternate_screen"
    /\ \E ok \in BOOLEAN :
          IF ok
          THEN alternate_screen' = FALSE /\ pc' = "show_cursor" /\ Stay
          ELSE alternate_screen' \in BOOLEAN /\ ReturnErr
    /\ UNCHANGED <<raw_mode, polled, main_vars>>

\* terminal.show_cursor()?; Ok(action)
ShowCursor ==
    /\ pc = "show_cursor"
    /\ \E ok \in BOOLEAN : IF ok THEN ReturnOk ELSE ReturnErr
    /\ UNCHANGED <<tty_vars, polled, main_vars>>

\* ------------------------------------------------------------------ main
Exit(code) ==
    /\ pc' = "exited"
    /\ exit_code' = Some(code)

\* Command::exec(): the process image is replaced, or exec returns an error,
\* which is reported before exit(1).
Exec(args, complaint) ==
    /\ cmds' = Append(cmds, Invocation(args))
    /\ \E replaced \in BOOLEAN :
          IF replaced
          THEN pc' = "replaced" /\ UNCHANGED <<stderr, exit_code>>
          ELSE stderr' = Append(stderr, complaint) /\ Exit(1)

\* Err(e) => { eprintln!("zellij-picker error: {}", e); exit(1) }
MainErr ==
    /\ pc = "main"
    /\ result = "Err"
    /\ stderr' = Append(stderr, "zellij-picker error")
    /\ Exit(1)
    /\ UNCHANGED <<tty_vars, tui_vars, result, cmds>>

\* ExitAction::AttachSession(name)
MainAttach ==
    /\ pc = "main"
    /\ result = "Ok"
    /\ Unwrap(action).kind = "AttachSession"
    /\ Exec(<<"attach", parse_name(Unwrap(Unwrap(action).name))>>,
            "Failed to attach to session")
    /\ UNCHANGED <<tty_vars, tui_vars, result>>

\* ExitAction::NewSession(option)
MainNew ==
    /\ pc = "main"
    /\ result = "Ok"
    /\ Unwrap(action).kind = "NewSession"
    /\ LET option == Unwrap(action).name
       IN  IF IsSome(option)
           THEN Exec(<<"--session", Unwrap(option)>>,
                     "Failed to create session")
           ELSE Exec(<< >>, "Failed to create session")
    /\ UNCHANGED <<tty_vars, tui_vars, result>>

\* Variant of the first half in which a failed kill-session is fatal.
MainKill_fatal ==
    /\ pc = "main"
    /\ result = "Ok"
    /\ Unwrap(action).kind = "DeleteSession"
    /\ cmds' = Append(cmds, Invocation(
                   <<"kill-session", parse_name(Unwrap(Unwrap(action).name))>>))
    /\ \E status \in {"success", "failure", "error"} :
          IF status = "success"
          THEN pc' = "delete_session" /\ UNCHANGED <<stderr, exit_code>>
          ELSE stderr' = Append(stderr, "Failed to kill session") /\ Exit(1)
    /\ UNCHANGED <<tty_vars, tui_vars, result>>

\* ExitAction::DeleteSession(name), first half: zellij kill-session.  A
\* failure is reported and the run goes on.
MainKill ==
    /\ pc = "main"
    /\ result = "Ok"
    /\ Unwrap(action).kind = "DeleteSession"
    /\ cmds' = Append(cmds, Invocation(
                   <<"kill-session", parse_name(Unwrap(Unwrap(action).name))>>))
    /\ \E status \in {"success", "failure", "error"} :
          stderr' = CASE status = "success" -> stderr
                      [] status = "failure" ->
                            Append(stderr, "Failed to kill session")
                      [] OTHER -> Append(stderr, "Failed to run kill-session")
    /\ pc' = "delete_session"
    /\ UNCHANGED <<tty_vars, tui_vars, result, exit_code>>

\* Variant of the second half in which a failed delete-session is reported
\* and main returns normally.
MainDelete_returns ==
    /\ pc = "delete_session"
    /\ cmds' = Append(cmds, Invocation(
                   <<"delete-session", parse_name(Unwrap(Unwrap(action).name))>>))
    /\ \E status \in {"success", "failure", "error"} :
          IF status = "success"
          THEN Exit(0) /\ UNCHANGED stderr
          ELSE stderr' = Append(stderr, "Failed to delete session") /\ Exit(0)
    /\ UNCHANGED <<tty_vars, tui_vars, result>>

\* ExitAction::DeleteSession(name), second half: zellij delete-session.  A
\* failure is reported and ends the process with exit(1).
MainDelete ==
    /\ pc = "delete_session"
    /\ cmds' = Append(cmds, Invocation(
                   <<"delete-session", parse_name(Unwrap(Unwrap(action).name))>>))
    /\ \E status \in {"success", "failure", "error"} :
          CASE status = "success" -> Exit(0) /\ UNCHANGED stderr
            [] status = "failure" ->
                  stderr' = Append(stderr, "Failed to delete session")
                      /\ Exit(1)
            [] OTHER ->
                  stderr' = Append(stderr, "Failed to run delete-session")
                      /\ Exit(1)
    /\ UNCHANGED <<tty_vars, tui_vars, result>>

\* ExitAction::Quit: main returns.
MainQuit ==
    /\ pc = "main"
    /\ result = "Ok"
    /\ Unwrap(action).kind = "Quit"
    /\ Exit(0)
    /\ UNCHANGED <<tty_vars, tui_vars, result, cmds, stderr>>

Next ==
    \/ EnableRawMode
    \/ EnterAlternateScreen
    \/ TerminalNew
    \/ ListSessions
    \/ GetSessions
    \/ Draw
    \/ Poll
    \/ ReadKey
    \/ ReadOtherEvent
    \/ ReadErr
    \/ DisableRawMode
    \/ LeaveAlternateScreen
    \/ ShowCursor
    \/ MainErr
    \/ MainAttach
    \/ MainNew
    \/ MainKill
    \/ MainDelete
    \/ MainQuit

Spec == Init /\ [][Next]_vars

\* --------------------------------------------- main, from any decision
\* The pieces of a line of zellij list-sessions: SGR colour sequences around
\* the name, and the bracketed annotation after it.
Bold == <<ESC, "[", "1", "m">>
Green == <<ESC, "[", "3", "2", ";", "1", "m">>
Reset0 == <<ESC, "[", "0", "m">>
Reset == <<ESC, "[", "m">>
Created == <<" ", "[", "C", "r", "e", "a", "t", "e", "d", " ", "2", " ", "m",
             "i", "n", "s", " ", "a", "g", "o", "]">>
CreatedCurrent ==
    <<" ", "[", "C", "r", "e", "a", "t", "e", "d", " ">> \o Green \o <<"2", "m">>
        \o Reset \o <<" ", "a", "g", "o", "]", " ", "(", "c", "u", "r", "r",
                       "e", "n", "t", ")">>
Decorate(pre, name, post, annotation) == pre \o name \o post \o annotation

PlainNames == {alpha, beta, work, <<"x", "-", "1">>}
\* The display forms of the sessions in the list.
DisplayNames ==
    {Decorate(pre, name, post, annotation) :
        pre \in {<< >>, Bold, Green}, name \in PlainNames,
        post \in {<< >>, Reset0, Reset},
        annotation \in {<< >>, Created, CreatedCurrent}}
\* Names accepted by the new-session input.
TypedNames == {<<"x">>, <<"x", "-", "y">>, <<"d", "j">>}

\* The decisions run_tui can return.
ExitActions ==
    {AttachSession(d) : d \in DisplayNames}
        \cup {DeleteSession(d) : d \in DisplayNames}
        \cup {NewSession(Some(n)) : n \in TypedNames}
        \cup {NewSession(None), Quit}

\* run_tui has returned Ok(action): the terminal is restored and the only
\* command so far is list-sessions.
InitDispatch ==
    /\ pc = "main"
    /\ raw_mode = FALSE
    /\ alternate_screen = FALSE
    /\ app = None
    /\ action \in {Some(e) : e \in ExitActions}
    /\ result = "Ok"
    /\ out = None
    /\ rendered = None
    /\ polled = TRUE
    /\ cmds = <<[args |-> <<"list-sessions">>, raw_mode |-> TRUE,
                 alternate_screen |-> TRUE]>>
    /\ stderr = << >>
    /\ exit_code = None
    /\ last_key = None
    /\ prev_key = None
    /\ typed = << >>
    /\ run = NoRun

NextDispatch ==
    \/ MainAttach
    \/ MainNew
    \/ MainKill
    \/ MainDelete
    \/ MainQuit

SpecDispatch == InitDispatch /\ [][NextDispatch]_vars

\* ------------------------------------------------------ the App on its own
\* An App built by App::new from any session list of up to MaxSessions
\* entries, and calls of its move methods.
SessionLists == UNION {[1..n -> {alpha, beta, work}] : n \in 0..MaxSessions}

InitApp ==
    /\ pc = "app"
    /\ raw_mode = FALSE
    /\ alternate_screen = FALSE
    /\ app \in {Some(App_new(sessions)) : sessions \in SessionLists}
    /\ action = None
    /\ result = "none"
    /\ out = None
    /\ rendered = None
    /\ polled = FALSE
    /\ cmds = << >>
    /\ stderr = << >>
    /\ exit_code = None
    /\ last_key = None
    /\ prev_key = None
    /\ typed = << >>
    /\ run = NoRun

\* app.move_up()
AppMoveUp ==
    /\ pc = "app"
    /\ app' = Some(move_up(Unwrap(app)))
    /\ run' = NextRun(Unwrap(app), UpKey)
    /\ UNCHANGED <<pc, tty_vars, action, result, out, rendered, polled,
                   main_vars, last_key, prev_key, typed>>

\* app.move_down()
AppMoveDown ==
    /\ pc = "app"
    /\ app' = Some(move_down(Unwrap(app)))
    /\ run' = NextRun(Unwrap(app), DownKey)
    /\ UNCHANGED <<pc, tty_vars, action, result, out, rendered, polled,
                   main_vars, last_key, prev_key, typed>>

NextApp ==
    \/ AppMoveUp
    \/ AppMoveDown

SpecApp == InitApp /\ [][NextApp]_vars

\* ======================================================== verification
\* Shorthands for the formulas below.
HasApp == IsSome(app)
Sessions == Unwrap(app).sessions
Selection == Unwrap(app).list_state
Editing == HasApp /\ IsSome(Unwrap(app).new_session_input)
Navigating == HasApp /\ ~IsSome(Unwrap(app).new_session_input)
Buffer == Unwrap(Unwrap(app).new_session_input)
Pressed(key) == last_key' = Some(key)
NameSafe(c) == is_alphanumeric(c) \/ c \in {"-", "_"}
TerminalActive == raw_mode \/ alternate_screen

\* ---- C1
\* C1: whenever the session list is non-empty, the selection is defined and
\* is an index of the list: 0 <= selection < len(sessions), in navigation
\* and in text-entry mode, after any sequence of key events.
C1_SelectionInRange ==
    (HasApp /\ Sessions # << >>) =>
        /\ IsSome(Selection)
        /\ 0 <= Unwrap(Selection)
        /\ Unwrap(Selection) < Len(Sessions)

\* C1 witness: on a list of three sessions, Up from the first entry has
\* wrapped the selection to the last index.
C1_Witness ==
    /\ HasApp
    /\ Len(Sessions) = 3
    /\ last_key = Some(UpKey)
    /\ run = [dir |-> "up", n |-> 1, start |-> 0]
    /\ Selection = Some(2)

\* ---- C2
\* C2: raw mode and the alternate screen are on whenever the loop polls or
\* reads, and both are off whenever run_tui has returned to main, whether
\* with Ok or with Err: no run exits, is replaced, or starts an attach,
\* create, kill-session or delete-session command with either still active.
C2_TerminalRestoredOnEveryExit ==
    /\ pc \in {"poll", "read"} => (raw_mode /\ alternate_screen)
    /\ pc \in {"main", "delete_session", "exited", "replaced"}
            => ~TerminalActive
    /\ \A i \in 1..Len(cmds) :
            cmds[i].args # <<"list-sessions">>
                => ~(cmds[i].raw_mode \/ cmds[i].alternate_screen)

\* ---- C3
\* C3: a key event in text-entry mode never changes the selection and never
\* ends the loop with Quit, AttachSession or DeleteSession; q, j, k, d and n
\* are appended to the buffer, Up and Down are ignored, and only Enter and
\* Escape leave the mode.
C3_EntryModeAbsorbsKeys ==
    [][(ReadKey /\ Editing) =>
        LET key == Unwrap(last_key')
            after == Unwrap(app')
        IN  /\ after.list_state = Selection
            /\ IsSome(action') => Unwrap(action').kind = "NewSession"
            /\ (pc' # "draw" \/ ~IsSome(after.new_session_input))
                    => key \in {EnterKey, EscKey}
            /\ key \in {CharKey(c) : c \in {"q", "j", "k", "d", "n"}}
                    => /\ after.new_session_input = Some(Append(Buffer, key.ch))
                       /\ pc' = "draw"
            /\ key \in {UpKey, DownKey} => (app' = app /\ pc' = "draw")
      ]_vars

\* C3 witness: in text-entry mode q, k and Down have been pressed; the loop
\* goes on, the buffer holds "qk" and the selection is still the first entry.
C3_Witness ==
    /\ pc = "draw"
    /\ Editing
    /\ typed = <<CharKey("q"), CharKey("k"), DownKey>>
    /\ Buffer = <<"q", "k">>
    /\ Len(Sessions) = 3
    /\ Selection = Some(0)

\* ---- C4
\* C4: in navigation mode d ends the loop with DeleteSession(n) and Enter
\* ends it with AttachSession(n), where n is sessions[selection] when the
\* key is pressed.
C4_ActsOnSelectedSession ==
    [][(ReadKey /\ Navigating) =>
        LET key == Unwrap(last_key')
            n == Sessions[Unwrap(Selection) + 1]
        IN  /\ key = CharKey("d")
                => (pc' = "disable_raw_mode"
                        /\ action' = Some(DeleteSession(n)))
            /\ key = EnterKey
                => (pc' = "disable_raw_mode"
                        /\ action' = Some(AttachSession(n)))
      ]_vars

\* C4 witness: with sessions [alpha, beta], one Down from index 0 and then d
\* have ended the loop with DeleteSession(beta).
C4_Witness ==
    /\ pc = "disable_raw_mode"
    /\ HasApp
    /\ Sessions = <<alpha, beta>>
    /\ run = [dir |-> "down", n |-> 1, start |-> 0]
    /\ last_key = Some(CharKey("d"))
    /\ action = Some(DeleteSession(beta))

\* ---- C5
\* C5: with an empty session list the action chosen is NewSession(None) and
\* the loop is never entered: whenever that action has been chosen, no frame
\* has been rendered and no event has been polled.
C5_EmptyListSkipsLoop ==
    /\ (HasApp /\ Sessions = << >>) =>
            /\ action = Some(NewSession(None))
            /\ pc \in {"disable_raw_mode", "leave_alternate_screen",
                       "show_cursor"}
    /\ action = Some(NewSession(None)) => (rendered = None /\ ~polled)

\* C5 witness: the session list is empty and the clean-up has been reached
\* with NewSession(None), raw mode already off.
C5_Witness ==
    /\ pc = "show_cursor"
    /\ HasApp
    /\ Sessions = << >>
    /\ action = Some(NewSession(None))
    /\ ~raw_mode

\* ---- C6
\* C6: with a non-empty session list the action is never NewSession(None),
\* whatever keys are pressed, and zellij is started without arguments only
\* by a run that never polled for input.
C6_UnnamedOnlyFromEmptyList ==
    /\ (HasApp /\ Sessions # << >>) => action # Some(NewSession(None))
    /\ (\E i \in 1..Len(cmds) : cmds[i].args = << >>) => ~polled

\* C6 witness: Enter was pressed on an empty buffer (shown by the last
\* frame); the loop goes on in navigation mode and no action was chosen.
C6_Witness ==
    /\ pc = "draw"
    /\ Navigating
    /\ last_key = Some(EnterKey)
    /\ rendered = Some([Unwrap(app) EXCEPT !.new_session_input = Some(<< >>)])
    /\ action = None

\* ---- C7
\* C7: every character of the new-name buffer is alphanumeric, '-' or '_',
\* and a key event carrying any other character changes nothing: buffer,
\* mode and selection stay as they are and the loop goes on.
C7_BufferNameSafe ==
    /\ [](Editing => \A i \in 1..Len(Buffer) : NameSafe(Buffer[i]))
    /\ [][(ReadKey /\ Unwrap(last_key').code = "Char"
                   /\ ~NameSafe(Unwrap(last_key').ch))
            => (app' = app /\ action' = action /\ pc' = "draw")
         ]_vars

\* C7 witness: '-', '!' and x were typed; the buffer holds "-x".
C7_Witness ==
    /\ pc = "draw"
    /\ Editing
    /\ typed = <<CharKey("-"), CharKey("!"), CharKey("x")>>
    /\ Buffer = <<"-", "x">>

\* ---- C8
\* C8: Enter in text-entry mode on a buffer that is empty after trimming
\* does what Escape does there: the App returns to navigation with the
\* buffer discarded and sessions and selection as they were, the loop goes
\* on and no action is chosen.
C8_EmptyEnterIsCancel ==
    [][(ReadKey /\ Editing /\ Pressed(EnterKey) /\ trim(Buffer) = << >>) =>
        LET esc == on_key(Unwrap(app), EscKey)
        IN  /\ esc.brk = None
            /\ app' = Some(esc.app)
            /\ app' = Some([Unwrap(app) EXCEPT !.new_session_input = None])
            /\ pc' = "draw"
            /\ action' = None
      ]_vars

\* C8 witness: with the second of three sessions selected, Enter was pressed
\* on the empty buffer the last frame shows; the App is navigating again,
\* the selection is unchanged and the loop goes on.
C8_Witness ==
    /\ pc = "draw"
    /\ Navigating
    /\ Len(Sessions) = 3
    /\ Selection = Some(1)
    /\ last_key = Some(EnterKey)
    /\ IsSome(rendered)
    /\ Unwrap(rendered).new_session_input = Some(<< >>)
    /\ Unwrap(rendered).list_state = Some(1)
    /\ action = None

\* The buffer a sequence of text-entry keys builds from the empty string:
\* an accepted character is appended, Backspace drops the last character
\* (nothing on the empty string), every other key changes nothing.
RECURSIVE Replay(_)
Replay(keys) ==
    IF keys = << >> THEN << >>
    ELSE LET before == Replay(SubSeq(keys, 1, Len(keys) - 1))
             key == keys[Len(keys)]
         IN  CASE key.code = "Char" /\ NameSafe(key.ch) ->
                    Append(before, key.ch)
               [] key.code = "Backspace" /\ before # << >> ->
                    SubSeq(before, 1, Len(before) - 1)
               [] OTHER -> before

\* ---- C9
\* C9: during a text entry the buffer is what the keys pressed since its n
\* build from the empty string; Enter on a non-empty buffer ends the loop
\* with NewSession(Some(name)), name the trimmed buffer; and an Enter after
\* which the loop goes on was pressed on an empty buffer.
C9_NamedCreation ==
    /\ (Editing /\ pc \in {"draw", "poll", "read", "disable_raw_mode"})
            => Buffer = Replay(typed)
    /\ (Editing /\ pc = "disable_raw_mode")
            => /\ last_key = Some(EnterKey)
               /\ Buffer # << >>
               /\ action = Some(NewSession(Some(trim(Buffer))))
    /\ (pc = "draw" /\ last_key = Some(EnterKey) /\ IsSome(rendered)
            /\ IsSome(Unwrap(rendered).new_session_input))
            => trim(Unwrap(Unwrap(rendered).new_session_input)) = << >>

\* C9 witness: n, x, !, y, Enter has ended the loop with
\* NewSession(Some("xy")).
C9_Witness ==
    /\ pc = "disable_raw_mode"
    /\ typed = <<CharKey("x"), CharKey("!"), CharKey("y")>>
    /\ last_key = Some(EnterKey)
    /\ action = Some(NewSession(Some(<<"x", "y">>)))

\* ---- C10
\* C10: after len(sessions) consecutive moves in one direction the selection
\* is back at the index the run started from.
C10_WrapAroundClosure ==
    (HasApp /\ run.dir # "none" /\ run.n = Len(Sessions))
        => Selection = Some(run.start)

\* C10 witness: on three sessions, three moves up that started at index 1
\* (passing the wrap from the first entry to the last) are back at index 1.
C10_Witness ==
    /\ HasApp
    /\ Len(Sessions) = 3
    /\ run = [dir |-> "up", n |-> 3, start |-> 1]
    /\ Selection = Some(1)


\* ---- C11
KillComplaints == {"Failed to kill session", "Failed to run kill-session"}

DeleteComplaints ==
    {"Failed to delete session", "Failed to run delete-session"}

Reported(complaints) == \E i \in 1..Len(stderr) : stderr[i] \in complaints

Deleting ==
    /\ result = "Ok"
    /\ IsSome(action)
    /\ Unwrap(action).kind = "DeleteSession"

Canonical == parse_name(Unwrap(Unwrap(action).name))

\* C11: dispatching DeleteSession runs kill-session and then delete-session,
\* each exactly once, in that order and with the same canonical name; a failed
\* kill-session is reported and delete-session is still attempted, and a
\* failed delete-session is reported and ends the process with a non-zero
\* exit status.
C11_KillThenDelete ==
    /\ pc = "delete_session" =>
            /\ Deleting
            /\ Len(cmds) = 2
            /\ cmds[2].args = <<"kill-session", Canonical>>
            /\ exit_code = None
            /\ Len(stderr) = IF Reported(KillComplaints) THEN 1 ELSE 0
    /\ (pc = "exited" /\ Deleting) =>
            /\ Len(cmds) = 3
            /\ cmds[2].args = <<"kill-session", Canonical>>
            /\ cmds[3].args = <<"delete-session", Canonical>>
            /\ Reported(DeleteComplaints) <=> exit_code = Some(1)
            /\ exit_code \in {Some(0), Some(1)}

C11_Witness ==
    /\ pc = "exited"
    /\ Deleting
    /\ Reported(KillComplaints)
    /\ Reported(DeleteComplaints)
    /\ cmds[3].args = <<"delete-session", work>>
    /\ exit_code = Some(1)


\* ---- C12
FatalComplaints ==
    {"zellij-picker error", "Failed to attach to session",
     "Failed to create session"} \cup DeleteComplaints

Quitting ==
    /\ result = "Ok"
    /\ IsSome(action)
    /\ Unwrap(action).kind = "Quit"

\* C12 as stated: a process that exits does so with status 0 only for Quit or
\* for a Delete whose kill-session and delete-session both succeeded, and with
\* status 1 whenever a failure was reported (a terminal error, an exec failure,
\* a kill failure or a delete failure).
C12_ZeroOnlyWithoutReportedFailure ==
    pc = "exited" =>
        /\ exit_code \in {Some(0), Some(1)}
        /\ exit_code = Some(0) =>
                \/ Quitting
                \/ Deleting /\ ~Reported(KillComplaints)
                            /\ ~Reported(DeleteComplaints)
        /\ stderr # << >> => exit_code = Some(1)

\* C12, amended: a process that exits does so with status 0 exactly for Quit
\* and for a Delete whose delete-session succeeded, and with status 1 exactly
\* when a terminal error, an exec failure or a delete failure was reported; a
\* reported kill failure alone leaves the status 0.
C12_ZeroUnlessFatalFailure ==
    pc = "exited" =>
        /\ exit_code \in {Some(0), Some(1)}
        /\ exit_code = Some(0) <=>
                (Quitting \/ (Deleting /\ ~Reported(DeleteComplaints)))
        /\ exit_code = Some(1) <=> Reported(FatalComplaints)
        /\ (exit_code = Some(0) /\ stderr # << >>) =>
                (Deleting /\ Len(stderr) = 1 /\ stderr[1] \in KillComplaints)

C12_Witness ==
    /\ pc = "exited"
    /\ Deleting
    /\ Reported(KillComplaints)
    /\ ~Reported(DeleteComplaints)
    /\ exit_code = Some(0)

\* ---- C13
\* C13: when zellij list-sessions cannot be started or exits with a non-zero
\* status, the session list is empty whatever the command printed, the run
\* takes the empty-list path with the decision NewSession(None), and nothing
\* is reported on stderr.
C13_FailedListingIsEmpty ==
    [][(pc = "get_sessions" /\ ~(Unwrap(out).ok /\ Unwrap(out).success)) =>
            /\ Unwrap(app').sessions = << >>
            /\ action' = Some(NewSession(None))
            /\ pc' = "disable_raw_mode"
            /\ stderr' = stderr]_vars


\* ---- C14
\* C14: Quit is produced only by q or Escape pressed while the navigation
\* frame is shown, never by another key, a text-entry key or a poll timeout;
\* a run that ends with Quit starts no zellij command besides the initial
\* list-sessions, reports nothing and exits with status 0.
C14_QuitOnlyFromNavigation ==
    (IsSome(action) /\ Unwrap(action).kind = "Quit") =>
        /\ polled
        /\ pc \in {"disable_raw_mode", "leave_alternate_screen",
                   "show_cursor", "main", "exited"}
        /\ pc = "disable_raw_mode" =>
                /\ last_key \in {Some(CharKey("q")), Some(EscKey)}
                /\ ~IsSome(Unwrap(rendered).new_session_input)
        /\ cmds = <<[args |-> <<"list-sessions">>, raw_mode |-> TRUE,
                     alternate_screen |-> TRUE]>>
        /\ stderr = << >>
        /\ pc = "exited" => exit_code = Some(0)

C14_Witness ==
    /\ pc = "exited"
    /\ Quitting
    /\ exit_code = Some(0)
    /\ Len(cmds) = 1


\* ---- C15
\* No colour sequence, bracket or surrounding blank is left in the name.
Undecorated(name) ==
    /\ \A i \in 1..Len(name) : name[i] \notin {ESC, "[", "]"}
    /\ trim(name) = name
    /\ name # << >>

\* The display form is a decoration of the name.
DisplayOf(display, name) ==
    /\ name \in PlainNames
    /\ \E pre \in {<< >>, Bold, Green}, post \in {<< >>, Reset0, Reset},
          annotation \in {<< >>, Created, CreatedCurrent} :
            display = Decorate(pre, name, post, annotation)

\* C15: the name carried by AttachSession or DeleteSession reaches attach,
\* kill-session and delete-session only in canonical form, which is the bare
\* session name with no colour sequence and no bracketed suffix left (the
\* display form ESC[1m work ESC[0m [Created 2 mins ago] gives work); the
\* name carried by NewSession is passed to --session exactly as typed.
C15_CanonicalNameInCommands ==
    \A i \in 1..Len(cmds) :
        LET args == cmds[i].args
        IN  /\ (args # << >> /\ args[1] \in
                        {"attach", "kill-session", "delete-session"}) =>
                    /\ Len(args) = 2
                    /\ Undecorated(args[2])
                    /\ DisplayOf(Unwrap(Unwrap(action).name), args[2])
            /\ (args # << >> /\ args[1] = "--session") =>
                    args = <<"--session", Unwrap(Unwrap(action).name)>>

C15_Witness ==
    /\ action = Some(AttachSession(work_line))
    /\ Len(cmds) = 2
    /\ cmds[2].args = <<"attach", work>>


\* ---- C16
\* C16: while navigating a list of len sessions with index i selected, Down
\* and j select (i + 1) mod len, Up and k select (i - 1) mod len, and nothing
\* else of the state changes; move_up and move_down undo each other.
C16_SingleStepModular ==
    /\ [](pc \in {"draw", "poll", "read"} =>
            /\ move_up(move_down(Unwrap(app))) = Unwrap(app)
            /\ move_down(move_up(Unwrap(app))) = Unwrap(app))
    /\ [][(ReadKey /\ Navigating) =>
            LET key == Unwrap(last_key')
                len == Len(Sessions)
                i == Unwrap(Selection)
            IN  /\ key \in {DownKey, CharKey("j")} =>
                    /\ app' = Some([Unwrap(app) EXCEPT
                                        !.list_state = Some((i + 1) % len)])
                    /\ pc' = "draw"
                /\ key \in {UpKey, CharKey("k")} =>
                    /\ app' = Some([Unwrap(app) EXCEPT
                                        !.list_state = Some((i + len - 1) % len)])
                    /\ pc' = "draw"]_vars

C16_Witness ==
    /\ pc = "draw"
    /\ last_key = Some(CharKey("k"))
    /\ Len(Sessions) = 3
    /\ run = [dir |-> "up", n |-> 1, start |-> 0]
    /\ Selection = Some(2)


\* ---- C17
\* C17: an App with an empty session list is left exactly as App::new built
\* it by any number of move_up and move_down calls: nothing is selected and
\* selected_session returns None.
C17_EmptyListMovesAreNoOps ==
    (pc = "app" /\ Sessions = << >>) =>
        /\ app = Some(App_new(<< >>))
        /\ Selection = None
        /\ selected_session(Unwrap(app)) = None

C17_Witness ==
    /\ pc = "app"
    /\ Sessions = << >>
    /\ run = [dir |-> "up", n |-> 1, start |-> 0]


\* ---- C18
\* The key is handled by no arm in the mode the App is in.
Ignored(key) ==
    \/ Navigating /\ key \in {CharKey("x"), CharKey("y"), CharKey("-"),
                                CharKey("!"), BackspaceKey}
    \/ Editing /\ key \in {UpKey, DownKey, CharKey("!")}

\* C18: every iteration draws the current state before it waits, so each
\* event is read with the frame of the state the previous event left; a poll
\* timeout, a non-key event and an ignored key change nothing and lead to
\* the next frame; the loop is left only by a key event, with exactly one
\* ExitAction, which is not replaced afterwards.
C18_RenderBeforeEveryEvent ==
    /\ [](pc \in {"poll", "read"} => rendered = app)
    /\ [](pc \in {"draw", "poll", "read"} => action = None)
    /\ []((pc = "disable_raw_mode" /\ polled) =>
            (IsSome(last_key) /\ IsSome(action) /\ rendered = app))
    /\ [][((pc = "poll" /\ pc' = "draw") \/ ReadOtherEvent
                \/ (ReadKey /\ Ignored(Unwrap(last_key')))) =>
            (pc' = "draw" /\ app' = app /\ action' = None)]_vars
    /\ [][IsSome(action) => action' \in {action, None}]_vars

C18_Witness ==
    /\ pc = "read"
    /\ last_key = Some(DownKey)
    /\ Selection = Some(1)
    /\ rendered = app


\* ---- C19
\* C19: no step changes the session list, and a key event that enters the
\* text entry (n) or is handled inside it, the cancelling Escape or Enter on
\* an empty buffer included, leaves the selection as it was; d or Enter
\* after a cancelled entry therefore acts on the session selected before n.
C19_TextEntryKeepsNavigation ==
    /\ [][(HasApp /\ IsSome(app')) => Unwrap(app').sessions = Sessions]_vars
    /\ [][(ReadKey /\ (Editing \/ Pressed(CharKey("n")))) =>
            Unwrap(app').list_state = Selection]_vars
    /\ []((pc = "disable_raw_mode" /\ last_key = Some(CharKey("d"))
                /\ prev_key \in {Some(EscKey), Some(EnterKey)}) =>
            /\ run = NoRun
            /\ action = Some(DeleteSession(Sessions[Unwrap(Selection) + 1])))

C19_Witness ==
    /\ pc = "disable_raw_mode"
    /\ last_key = Some(CharKey("d"))
    /\ prev_key = Some(EscKey)
    /\ Selection = Some(1)
    /\ action = Some(DeleteSession(beta))

\* ---- C20
\* C20: two consecutive Escape key events always end the loop with Quit: an
\* Escape either breaks the loop with Quit (navigation mode) or cancels the
\* text entry and leaves the loop in navigation mode, where the next Escape
\* breaks it with Quit.
C20_TwoEscapesQuit ==
    /\ last_key = Some(EscKey) =>
            \/ pc = "disable_raw_mode" /\ action = Some(Quit)
            \/ /\ pc \in {"draw", "poll", "read"}
               /\ Navigating
               /\ prev_key # Some(EscKey)
    /\ (last_key = Some(EscKey) /\ prev_key = Some(EscKey)) =>
            (pc = "disable_raw_mode" /\ action = Some(Quit))

C20_Witness ==
    /\ pc = "disable_raw_mode"
    /\ last_key = Some(EscKey)
    /\ prev_key = Some(EscKey)
    /\ action = Some(Quit)

====
